---- MODULE Spec2Model ----
\* Download-client reconciliation of configarr (src/download-client.ts):
\* keyOf, the field and tag comparison of isSameClient, and
\* calculateDownloadClientsDiff with its single asynchronous fetch.
\*
\* Encoding.  A record (desired entry or observed record) is a function from
\* the names of the attributes it has to their values; an attribute the
\* object does not have is not in the DOMAIN.  Scalar attribute values are
\* strings ("true", "1", "torrent"), id is a number, tags is a sequence of
\* JSON values and fields a sequence of [name, value].  Text whose characters
\* matter (the output of String(), join() and JSON.stringify()) is a sequence
\* of UTF-16 code units.
EXTENDS Integers, Sequences, FiniteSets, TLC

VARIABLES pc, configEntries, remote, serverList, fetches, configMap,
          serverMap, missingOnServer, notAvailableAnymore, changed, result,
          round, server, entry, verdict

vars == <<pc, configEntries, remote, serverList, fetches, configMap,
          serverMap, missingOnServer, notAvailableAnymore, changed, result,
          round, server, entry, verdict>>

-----------------------------------------------------------------------------
\* Bounds of the model.

MaxEntries == 3
MaxServer == 2
MaxTags == 2
MaxFields == 2
MaxRounds == 2

-----------------------------------------------------------------------------
\* JavaScript values and text.

Undefined == "undefined"
NullValue == "null"

JNum(n) == [t |-> "num", n |-> n, s |-> <<>>, items |-> <<>>]
JStr(s) == [t |-> "str", n |-> 0, s |-> s, items |-> <<>>]
JArr(items) == [t |-> "arr", n |-> 0, s |-> <<>>, items |-> items]
JObj(items) == [t |-> "obj", n |-> 0, s |-> <<>>, items |-> items]
Member(k, n) == [k |-> k, v |-> n]

RECURSIVE NumToStr(_)
NumToStr(n) ==
  IF n < 10 THEN <<48 + n>> ELSE NumToStr(n \div 10) \o <<48 + (n % 10)>>

RECURSIVE StrLess(_, _)
StrLess(a, b) ==
  IF b = <<>> THEN FALSE
  ELSE IF a = <<>> THEN TRUE
  ELSE IF Head(a) # Head(b) THEN Head(a) < Head(b)
  ELSE StrLess(Tail(a), Tail(b))

RECURSIVE Join(_, _)
Join(strs, sep) ==
  IF strs = <<>> THEN <<>>
  ELSE IF Len(strs) = 1 THEN strs[1]
  ELSE strs[1] \o sep \o Join(Tail(strs), sep)

MemberToJSON(m) ==
  IF m.k = <<>> THEN NumToStr(m.v)
  ELSE <<34>> \o m.k \o <<34, 58>> \o NumToStr(m.v)

JSONstringify(v) ==
  CASE v.t = "num" -> NumToStr(v.n)
    [] v.t = "str" -> <<34>> \o v.s \o <<34>>
    [] v.t = "arr" ->
         <<91>> \o Join([i \in 1..Len(v.items) |-> MemberToJSON(v.items[i])], <<44>>) \o <<93>>
    [] v.t = "obj" ->
         <<123>> \o Join([i \in 1..Len(v.items) |-> MemberToJSON(v.items[i])], <<44>>) \o <<125>>

StringOf(v) ==
  CASE v.t = "num" -> NumToStr(v.n)
    [] v.t = "str" -> v.s
    [] v.t = "arr" -> Join([i \in 1..Len(v.items) |-> NumToStr(v.items[i].v)], <<44>>)
    [] v.t = "obj" -> <<91, 111, 98, 106, 101, 99, 116, 32, 79, 98, 106, 101, 99, 116, 93>>

\* Array.prototype.sort() without a comparator: a stable sort by the code
\* units of String(element).
RECURSIVE InsertSorted(_, _)
InsertSorted(sorted, v) ==
  IF sorted = <<>> THEN <<v>>
  ELSE IF StrLess(StringOf(v), StringOf(Head(sorted))) THEN <<v>> \o sorted
  ELSE <<Head(sorted)>> \o InsertSorted(Tail(sorted), v)

RECURSIVE ArraySort(_)
ArraySort(arr) ==
  IF arr = <<>> THEN <<>>
  ELSE InsertSorted(ArraySort(SubSeq(arr, 1, Len(arr) - 1)), arr[Len(arr)])

ArrayJoin(arr, sep) == Join([i \in 1..Len(arr) |-> StringOf(arr[i])], sep)

\* A JavaScript Map as the sequence of its [key, value] entries in insertion
\* order; set() on a key the map has keeps the key's place.
MapHas(m, k) == \E i \in 1..Len(m) : m[i].key = k
MapIndex(m, k) == CHOOSE i \in 1..Len(m) : m[i].key = k
MapGet(m, k) == m[MapIndex(m, k)].value
\* A map whose set() moves a key it already has to the end.
MapSetMoveToEnd(m, k, v) ==
  LET other(e) == e.key # k
  IN  Append(SelectSeq(m, other), [key |-> k, value |-> v])

MapSet(m, k, v) ==
  IF MapHas(m, k)
    THEN [m EXCEPT ![MapIndex(m, k)] = [key |-> k, value |-> v]]
    ELSE Append(m, [key |-> k, value |-> v])

RECURSIVE NewMap(_)
NewMap(pairs) ==
  IF pairs = <<>> THEN <<>>
  ELSE MapSet(NewMap(SubSeq(pairs, 1, Len(pairs) - 1)),
              pairs[Len(pairs)].key, pairs[Len(pairs)].value)

MapSize(m) == Len(m)

-----------------------------------------------------------------------------
\* src/download-client.ts

Has(c, k) == k \in DOMAIN c
Get(c, k) == IF Has(c, k) THEN c[k] ELSE Undefined
Nullish(v, d) == IF v = Undefined \/ v = NullValue THEN d ELSE v

keyOf(c) == Nullish(Get(c, "name"), "") \o "::" \o Nullish(Get(c, "implementation"), "")

FieldsOf(c) == IF Has(c, "fields") THEN c["fields"] ELSE <<>>
TagsOf(c) == IF Has(c, "tags") THEN c["tags"] ELSE <<>>

toFieldMap(fields) ==
  NewMap([i \in 1..Len(fields) |-> [key |-> fields[i].name, value |-> fields[i].value]])

areFieldsEqual(a, b) ==
  LET am == toFieldMap(a)
      bm == toFieldMap(b)
  IN  /\ MapSize(am) = MapSize(bm)
      /\ \A i \in 1..Len(am) :
           /\ MapHas(bm, am[i].key)
           /\ JSONstringify(MapGet(bm, am[i].key)) = JSONstringify(am[i].value)

keys ==
  <<"configContract", "enable", "implementation", "implementationName",
    "infoLink", "name", "priority", "protocol", "removeCompletedDownloads",
    "removeFailedDownloads">>

\* A comparison in which an attribute neither side has counts as a mismatch.
coreMatchPresentOnly(srv, ent) ==
  \A i \in 1..Len(keys) :
     /\ Has(srv, keys[i])
     /\ Has(ent, keys[i])
     /\ srv[keys[i]] = ent[keys[i]]

coreMatch(srv, ent) ==
  \A i \in 1..Len(keys) :
     Nullish(Get(srv, keys[i]), NullValue) = Nullish(Get(ent, keys[i]), NullValue)

tagsMatch(serverTags, entryTags) ==
  /\ Len(serverTags) = Len(entryTags)
  /\ ArrayJoin(ArraySort(serverTags), <<44>>) = ArrayJoin(ArraySort(entryTags), <<44>>)

fieldsMatch(serverFields, entryFields) ==
  \/ areFieldsEqual(serverFields, entryFields)
  \/ LET sm == toFieldMap(serverFields)
         em == toFieldMap(entryFields)
     IN  /\ MapSize(sm) = MapSize(em)
         /\ \A i \in 1..Len(sm) :
              /\ MapHas(em, sm[i].key)
              /\ JSONstringify(sm[i].value) = JSONstringify(MapGet(em, sm[i].key))
         /\ \A i \in 1..Len(em) : MapHas(sm, em[i].key)

isSameClient(srv, ent) ==
  /\ coreMatch(srv, ent)
  /\ tagsMatch(TagsOf(srv), TagsOf(ent))
  /\ fieldsMatch(FieldsOf(srv), FieldsOf(ent))

\* The revision of isSameClient that leaves masked fields out of the
\* comparison (src/unnamed/part_000).
SENSITIVE_FIELD_NAMES == {"apiKey", "password", "api_key"}

stripSecrets(arr) ==
  LET open(f) == f.name \notin SENSITIVE_FIELD_NAMES
  IN  SelectSeq(arr, open)

isSameClientSecretAware(srv, ent) ==
  /\ coreMatch(srv, ent)
  /\ tagsMatch(TagsOf(srv), TagsOf(ent))
  /\ LET sm == toFieldMap(stripSecrets(FieldsOf(srv)))
         em == toFieldMap(stripSecrets(FieldsOf(ent)))
     IN  /\ MapSize(sm) = MapSize(em)
         /\ \A i \in 1..Len(sm) :
              /\ MapHas(em, sm[i].key)
              /\ JSONstringify(sm[i].value) = JSONstringify(MapGet(em, sm[i].key))
         /\ \A i \in 1..Len(em) : MapHas(sm, em[i].key)

\* The revision of isSameClient in which an attribute the entry leaves out is
\* not compared (src/unnamed/part_001).
isSameClientTolerant(srv, ent) ==
  /\ \A i \in 1..Len(keys) :
       Get(ent, keys[i]) # Undefined => Get(srv, keys[i]) = Get(ent, keys[i])
  /\ Has(ent, "tags") =>
       LET s == ArraySort([i \in 1..Len(TagsOf(srv)) |-> JStr(StringOf(TagsOf(srv)[i]))])
           e == ArraySort([i \in 1..Len(TagsOf(ent)) |-> JStr(StringOf(TagsOf(ent)[i]))])
       IN  /\ Len(s) = Len(e)
           /\ \A i \in 1..Len(s) : s[i] = e[i]

\* A merge with its operands swapped: the observed attributes win.
MergeServerWins(srv, ent) ==
  [k \in (DOMAIN srv) \cup (DOMAIN ent) |-> IF k \in DOMAIN srv THEN srv[k] ELSE ent[k]]

Merge(srv, ent) ==
  [k \in (DOMAIN srv) \cup (DOMAIN ent) |-> IF k \in DOMAIN ent THEN ent[k] ELSE srv[k]]

IdString(srv) ==
  IF Has(srv, "id") THEN NumToStr(srv["id"])
  ELSE <<117, 110, 100, 101, 102, 105, 110, 101, 100>>

IndexByKey(list) ==
  NewMap([i \in 1..Len(list) |-> [key |-> keyOf(list[i]), value |-> list[i]]])

MapValues(m) == [i \in 1..Len(m) |-> m[i].value]

MissingOf(cm, sm) ==
  LET absent(e) == ~MapHas(sm, e.key)
  IN  MapValues(SelectSeq(cm, absent))

NotAvailableOf(cm, sm) ==
  LET absent(e) == ~MapHas(cm, e.key)
  IN  MapValues(SelectSeq(sm, absent))

\* A changed loop that pushes every matched pair, equal or not.
ChangedOfEveryPair(cm, sm) ==
  LET paired(e) == MapHas(cm, e.key)
      hits == SelectSeq(sm, paired)
  IN  [i \in 1..Len(hits) |->
         [id |-> IdString(hits[i].value),
          payload |-> Merge(hits[i].value, MapGet(cm, hits[i].key))]]

ChangedOf(cm, sm) ==
  LET differs(e) == MapHas(cm, e.key) /\ ~isSameClient(e.value, MapGet(cm, e.key))
      hits == SelectSeq(sm, differs)
  IN  [i \in 1..Len(hits) |->
         [id |-> IdString(hits[i].value),
          payload |-> Merge(hits[i].value, MapGet(cm, hits[i].key))]]

\* An in-sync test that forgets the changed bucket.
InSyncWithoutChanged(m, n, c) == Len(m) = 0 /\ Len(n) = 0

InSync(m, n, c) == Len(m) = 0 /\ Len(n) = 0 /\ Len(c) = 0

ResultOf(m, n, c) ==
  IF InSync(m, n, c) THEN [kind |-> "null"]
  ELSE [kind |-> "diff", missingOnServer |-> m, notAvailableAnymore |-> n, changed |-> c]

-----------------------------------------------------------------------------
\* Inputs: the desired lists a caller can pass and the lists the server can
\* hold.  The server numbers its records; a desired entry has no id.

SeqsUpTo(S, n) == UNION {[1..k -> S] : k \in 0..n}

Client(name, enable) ==
  [name |-> name, implementation |-> "QBittorrent", enable |-> enable]

HostField == [name |-> "host", value |-> JStr(<<104>>)]

TaggedClient ==
  Client("qb", "true") @@ [tags |-> <<JNum(1), JNum(2)>>, fields |-> <<HostField>>]

EntryUniverse ==
  {Client("qb", "true"), Client("qb", "false"), Client("sab", "true"), TaggedClient}

ServerUniverse ==
  {Client("qb", "true"), Client("sab", "true"), Client("nzb", "true"), TaggedClient,
   Client("qb", "true") @@ [priority |-> "1"]}

WithId(e, id) == e @@ [id |-> id]

DesiredLists == SeqsUpTo(EntryUniverse, MaxEntries)

ObservedLists ==
  {[i \in 1..Len(l) |-> WithId(l[i], 8 + i)] : l \in SeqsUpTo(ServerUniverse, MaxServer)}

FetchError == "fetch failed"
Pending == [kind |-> "pending"]
NoClient == [name |-> "none"]

-----------------------------------------------------------------------------
\* calculateDownloadClientsDiff as a process: the call starts the one fetch
\* and suspends; the continuation of the await runs to its return in one step.
\* serverList is the list the last resolved fetch returned; the other locals
\* are those of the call in progress.

Init ==
  /\ pc = "idle"
  /\ configEntries \in DesiredLists
  /\ remote \in ObservedLists
  /\ serverList = <<>>
  /\ fetches = 0
  /\ round = 0
  /\ configMap = <<>>
  /\ serverMap = <<>>
  /\ missingOnServer = <<>>
  /\ notAvailableAnymore = <<>>
  /\ changed = <<>>
  /\ result = Pending
  /\ server = NoClient
  /\ entry = NoClient
  /\ verdict = "none"

Invoke ==
  /\ pc = "idle"
  /\ round < MaxRounds
  /\ pc' = "awaiting"
  /\ round' = round + 1
  /\ fetches' = fetches + 1
  /\ configMap' = <<>>
  /\ serverMap' = <<>>
  /\ missingOnServer' = <<>>
  /\ notAvailableAnymore' = <<>>
  /\ changed' = <<>>
  /\ result' = Pending
  /\ UNCHANGED <<configEntries, remote, serverList, server, entry, verdict>>

FetchResolve ==
  /\ pc = "awaiting"
  /\ serverList' = remote
  /\ configMap' = IndexByKey(configEntries)
  /\ serverMap' = IndexByKey(serverList')
  /\ missingOnServer' = MissingOf(configMap', serverMap')
  /\ notAvailableAnymore' = NotAvailableOf(configMap', serverMap')
  /\ changed' = ChangedOf(configMap', serverMap')
  /\ result' = ResultOf(missingOnServer', notAvailableAnymore', changed')
  /\ pc' = "done"
  /\ UNCHANGED <<configEntries, remote, fetches, round, server, entry, verdict>>

\* A rejection handler that fetches again instead of failing the call.
FetchRejectRetry ==
  /\ pc = "awaiting"
  /\ fetches < MaxRounds + 1
  /\ fetches' = fetches + 1
  /\ UNCHANGED <<pc, configEntries, remote, serverList, round, configMap,
                 serverMap, missingOnServer, notAvailableAnymore, changed,
                 result, server, entry, verdict>>

FetchReject ==
  /\ pc = "awaiting"
  /\ result' = [kind |-> "rejected", error |-> FetchError]
  /\ pc' = "failed"
  /\ UNCHANGED <<configEntries, remote, serverList, fetches, round, configMap,
                 serverMap, missingOnServer, notAvailableAnymore, changed,
                 server, entry, verdict>>

\* The caller applies a diff to the server: deletes the records of
\* notAvailableAnymore, replaces each changed record by its payload and
\* creates the entries of missingOnServer under fresh ids.
IdsOf(list) == {list[i]["id"] : i \in 1..Len(list)}
MaxId(list) == IF list = <<>> THEN 8 ELSE CHOOSE m \in IdsOf(list) : \A x \in IdsOf(list) : x <= m

Applied(list, diff) ==
  LET gone == IdsOf(diff.notAvailableAnymore)
      keep(r) == r["id"] \notin gone
      kept == SelectSeq(list, keep)
      isPayloadOf(r, c) == c.id = IdString(r)
      replaced == [i \in 1..Len(kept) |->
                     IF \E j \in 1..Len(diff.changed) : isPayloadOf(kept[i], diff.changed[j])
                       THEN diff.changed[CHOOSE j \in 1..Len(diff.changed) :
                                           isPayloadOf(kept[i], diff.changed[j])].payload
                       ELSE kept[i]]
      created == [i \in 1..Len(diff.missingOnServer) |->
                    WithId(diff.missingOnServer[i], MaxId(list) + i)]
  IN  replaced \o created

ApplyDiff ==
  /\ pc = "done"
  /\ result.kind = "diff"
  /\ round < MaxRounds
  /\ remote' = Applied(remote, result)
  /\ pc' = "idle"
  /\ UNCHANGED <<configEntries, serverList, fetches, round, configMap, serverMap,
                 missingOnServer, notAvailableAnymore, changed, result,
                 server, entry, verdict>>

Next == Invoke \/ FetchResolve \/ FetchReject \/ ApplyDiff

Spec == Init /\ [][Next]_vars

-----------------------------------------------------------------------------
\* isSameClient on one observed record and one desired entry of the same
\* IdentityKey, for each revision of the comparison.

EmptyRecord == [a \in {} |-> "none"]
Optional(k, S) == {EmptyRecord} \cup {k :> v : v \in S}

TagUniverse ==
  {JNum(1), JNum(2), JStr(<<49>>), JStr(<<97>>), JStr(<<99>>),
   JStr(<<97, 44, 98>>), JStr(<<98, 44, 99>>)}

ObjAB == JObj(<<Member(<<97>>, 1), Member(<<98>>, 2)>>)
ObjBA == JObj(<<Member(<<98>>, 2), Member(<<97>>, 1)>>)
Arr12 == JArr(<<Member(<<>>, 1), Member(<<>>, 2)>>)
Arr21 == JArr(<<Member(<<>>, 2), Member(<<>>, 1)>>)

FieldUniverse ==
  {[name |-> "host", value |-> v] : v \in {JNum(1), ObjAB, ObjBA, Arr12, Arr21}}
    \cup {[name |-> "apiKey", value |-> v] : v \in {JStr(<<42>>), JStr(<<107>>)}}

TagPairs ==
  {<<s, e>> : s \in Optional("tags", SeqsUpTo(TagUniverse, MaxTags)),
              e \in Optional("tags", SeqsUpTo(TagUniverse, MaxTags))}

FieldPairs ==
  {<<s, e>> : s \in Optional("fields", SeqsUpTo(FieldUniverse, MaxFields)),
              e \in Optional("fields", SeqsUpTo(FieldUniverse, MaxFields))}

CorePairs ==
  {<<[enable |-> se] @@ sp, [enable |-> ee] @@ ep>> :
      se \in {"true", "false"}, ee \in {"true", "false"},
      sp \in Optional("priority", {"1", "2", NullValue}),
      ep \in Optional("priority", {"1", "2"})}

PairBase == [name |-> "qb", implementation |-> "QBittorrent", enable |-> "true"]

InitPair ==
  /\ pc = "pair"
  /\ \E p \in TagPairs \cup FieldPairs \cup CorePairs :
       /\ server = WithId(p[1] @@ PairBase, 9)
       /\ entry = p[2] @@ PairBase
  /\ verdict = "none"
  /\ configEntries = <<>>
  /\ remote = <<>>
  /\ serverList = <<>>
  /\ fetches = 0
  /\ round = 0
  /\ configMap = <<>>
  /\ serverMap = <<>>
  /\ missingOnServer = <<>>
  /\ notAvailableAnymore = <<>>
  /\ changed = <<>>
  /\ result = Pending

Verdict(same) == IF same THEN "match" ELSE "no-match"

pairFrame ==
  UNCHANGED <<configEntries, remote, serverList, fetches, round, configMap,
              serverMap, missingOnServer, notAvailableAnymore, changed, result,
              server, entry>>

Evaluate ==
  /\ pc = "pair"
  /\ verdict' = Verdict(isSameClient(server, entry))
  /\ pc' = "strict"
  /\ pairFrame

EvaluateSecretAware ==
  /\ pc = "pair"
  /\ verdict' = Verdict(isSameClientSecretAware(server, entry))
  /\ pc' = "secretAware"
  /\ pairFrame

EvaluateTolerant ==
  /\ pc = "pair"
  /\ verdict' = Verdict(isSameClientTolerant(server, entry))
  /\ pc' = "tolerant"
  /\ pairFrame

NextPair == Evaluate \/ EvaluateSecretAware \/ EvaluateTolerant

SpecPair == InitPair /\ [][NextPair]_vars

-----------------------------------------------------------------------------
\* Properties of calculateDownloadClientsDiff (specification Spec).

Range(seq) == {seq[i] : i \in 1..Len(seq)}
NoRepeat(seq) == \A i, j \in 1..Len(seq) : i # j => seq[i] # seq[j]
KeysOf(list) == {keyOf(list[i]) : i \in 1..Len(list)}
FirstIndex(list, k) ==
  CHOOSE i \in 1..Len(list) : keyOf(list[i]) = k /\ \A j \in 1..(i - 1) : keyOf(list[j]) # k
LastIndex(list, k) ==
  CHOOSE i \in 1..Len(list) : keyOf(list[i]) = k /\ \A j \in (i + 1)..Len(list) : keyOf(list[j]) # k
LastOf(list, k) == list[LastIndex(list, k)]
UniqueKeys(list) == \A i, j \in 1..Len(list) : i # j => keyOf(list[i]) # keyOf(list[j])

MissingKeys == [i \in 1..Len(missingOnServer) |-> keyOf(missingOnServer[i])]
NotAvailableKeys == [i \in 1..Len(notAvailableAnymore) |-> keyOf(notAvailableAnymore[i])]
ChangedKeys == [i \in 1..Len(changed) |-> keyOf(changed[i].payload)]

RECURSIVE StrToNum(_)
StrToNum(str) ==
  IF str = <<>> THEN 0
  ELSE 10 * StrToNum(SubSeq(str, 1, Len(str) - 1)) + (str[Len(str)] - 48)

\* C1: when the call returns, the keys of missingOnServer are exactly the
\* keys of the desired list that the observed list lacks, the keys of
\* notAvailableAnymore exactly the keys of the observed list that the desired
\* list lacks, the keys of changed exactly the keys of both lists whose pair
\* isSameClient rejects, and no bucket names a key twice.
C1_Partition ==
  pc = "done" =>
    LET D == KeysOf(configEntries)
        O == KeysOf(serverList)
    IN  /\ NoRepeat(MissingKeys)
        /\ NoRepeat(NotAvailableKeys)
        /\ NoRepeat(ChangedKeys)
        /\ Range(MissingKeys) = D \ O
        /\ Range(NotAvailableKeys) = O \ D
        /\ Range(ChangedKeys) =
             {k \in D \cap O : ~isSameClient(LastOf(serverList, k), LastOf(configEntries, k))}

C1_Witness ==
  /\ pc = "done"
  /\ missingOnServer # <<>>
  /\ notAvailableAnymore # <<>>
  /\ changed # <<>>

\* C2: with unique keys in the desired list and in the list the first call
\* fetched, the call that follows the application of the first call's diff
\* returns null.
C2_Converges ==
  [][(/\ pc = "awaiting"
      /\ round = 2
      /\ UniqueKeys(configEntries)
      /\ UniqueKeys(serverList)
      /\ pc' = "done") => result'.kind = "null"]_vars

\* C3: when both lists have the same keys and every desired entry has
\* exactly the attributes, tags and fields of the observed records of its
\* key, the call returns null.
SameButId(o, d) == [a \in (DOMAIN o) \ {"id"} |-> o[a]] = d

DesiredEqualsObserved ==
  /\ KeysOf(configEntries) = KeysOf(serverList)
  /\ \A i \in 1..Len(configEntries) : \A j \in 1..Len(serverList) :
       keyOf(configEntries[i]) = keyOf(serverList[j])
         => SameButId(serverList[j], configEntries[i])

C3_Idempotent ==
  (pc = "done" /\ DesiredEqualsObserved) => result.kind = "null"

C3_Witness ==
  /\ pc = "done"
  /\ DesiredEqualsObserved
  /\ Len(serverList) = 2
  /\ \E i \in 1..Len(configEntries) : Has(configEntries[i], "tags")

\* C5: the payload of a changed entry has the desired value of every
\* attribute the desired entry has and the observed value of every other
\* attribute of the observed record, and its id is the decimal text of the
\* observed id.
C5_Merge ==
  pc = "done" =>
    \A i \in 1..Len(changed) :
      LET c == changed[i]
          k == keyOf(c.payload)
      IN  /\ k \in KeysOf(serverList) \cap KeysOf(configEntries)
          /\ LET o == LastOf(serverList, k)
                 d == LastOf(configEntries, k)
             IN  /\ DOMAIN c.payload = (DOMAIN o) \cup (DOMAIN d)
                 /\ \A a \in DOMAIN d : c.payload[a] = d[a]
                 /\ \A a \in (DOMAIN o) \ (DOMAIN d) : c.payload[a] = o[a]
                 /\ c.id # <<>>
                 /\ \A n \in 1..Len(c.id) : c.id[n] \in 48..57
                 /\ StrToNum(c.id) = o["id"]

C5_Witness ==
  /\ pc = "done"
  /\ \E i \in 1..Len(changed) :
       LET k == keyOf(changed[i].payload)
       IN  /\ Has(LastOf(serverList, k), "priority")
           /\ ~Has(LastOf(configEntries, k), "priority")
           /\ LastOf(serverList, k)["enable"] # LastOf(configEntries, k)["enable"]
           /\ Len(changed[i].id) = 2

\* C7: the call returns null exactly when the three buckets are empty, and
\* otherwise an object that carries the three buckets.
C7_NullIffEmpty ==
  pc = "done" =>
    /\ result.kind \in {"null", "diff"}
    /\ result.kind = "null" <=>
         (missingOnServer = <<>> /\ notAvailableAnymore = <<>> /\ changed = <<>>)
    /\ result.kind = "diff" =>
         /\ result.missingOnServer = missingOnServer
         /\ result.notAvailableAnymore = notAvailableAnymore
         /\ result.changed = changed
         /\ Len(result.missingOnServer) + Len(result.notAvailableAnymore)
              + Len(result.changed) > 0

C7_Witness ==
  /\ pc = "done"
  /\ result.kind = "null"
  /\ Len(configEntries) = 2
  /\ UniqueKeys(configEntries)

\* C8: every call makes one fetch; nothing is indexed or compared while the
\* fetch is pending; a rejected fetch ends the call with the fetch error and
\* without a diff or null.
C8_FetchOnce ==
  /\ fetches = round
  /\ pc \in {"awaiting", "failed"} =>
       /\ configMap = <<>>
       /\ serverMap = <<>>
       /\ missingOnServer = <<>>
       /\ notAvailableAnymore = <<>>
       /\ changed = <<>>
  /\ pc = "awaiting" => result = Pending
  /\ pc = "failed" => result = [kind |-> "rejected", error |-> FetchError]
  /\ pc = "done" => serverList = remote

C8_Witness ==
  /\ pc = "failed"
  /\ round = 2
  /\ configEntries # <<>>

\* C10 as stated: missingOnServer and notAvailableAnymore hold the last
\* occurrence of each of their keys, in the order of the input positions of
\* those last occurrences.
ByLastPosition(list, other) ==
  LET idx == [i \in 1..Len(list) |-> i]
      emitted(i) == /\ i = LastIndex(list, keyOf(list[i]))
                    /\ keyOf(list[i]) \notin KeysOf(other)
      hits == SelectSeq(idx, emitted)
  IN  [n \in 1..Len(hits) |-> list[hits[n]]]

C10_InputPositionOrder ==
  pc = "done" =>
    /\ missingOnServer = ByLastPosition(configEntries, serverList)
    /\ notAvailableAnymore = ByLastPosition(serverList, configEntries)

\* C10 as amended: the buckets hold the last occurrence of each of their
\* keys, in the order in which the keys first occur in the input list, and a
\* changed entry is built from the last occurrences of its key.
ByFirstPosition(list, other) ==
  LET idx == [i \in 1..Len(list) |-> i]
      emitted(i) == /\ i = FirstIndex(list, keyOf(list[i]))
                    /\ keyOf(list[i]) \notin KeysOf(other)
      hits == SelectSeq(idx, emitted)
  IN  [n \in 1..Len(hits) |-> LastOf(list, keyOf(list[hits[n]]))]

C10_FirstOccurrenceOrder ==
  pc = "done" =>
    /\ missingOnServer = ByFirstPosition(configEntries, serverList)
    /\ notAvailableAnymore = ByFirstPosition(serverList, configEntries)
    /\ \A i \in 1..Len(changed) :
         LET k == keyOf(changed[i].payload)
         IN  /\ StrToNum(changed[i].id) = LastOf(serverList, k)["id"]
             /\ \A a \in DOMAIN LastOf(configEntries, k) :
                  changed[i].payload[a] = LastOf(configEntries, k)[a]

C10_Witness ==
  /\ pc = "done"
  /\ Len(configEntries) = 3
  /\ keyOf(configEntries[1]) = keyOf(configEntries[3])
  /\ keyOf(configEntries[1]) # keyOf(configEntries[2])
  /\ configEntries[1] # configEntries[3]
  /\ Len(missingOnServer) = 2

-----------------------------------------------------------------------------
\* Properties of isSameClient (specification SpecPair).

AgreeOn(attrs) ==
  \A a \in attrs :
    /\ Has(server, a) <=> Has(entry, a)
    /\ Has(server, a) => server[a] = entry[a]

OpenFields(c) ==
  LET open(f) == f.name \notin {"apiKey", "password", "api_key"}
  IN  SelectSeq(FieldsOf(c), open)

\* C4: a pair that agrees on the ten attributes, on tags and on every field
\* that is not sensitive is a match, whatever its sensitive fields hold.
C4_SecretExclusion ==
  (pc = "strict" /\ AgreeOn(Range(keys) \cup {"tags"}) /\ OpenFields(server) = OpenFields(entry))
    => verdict = "match"

\* C6: for a pair that agrees on everything but tags, the verdict is a match
\* exactly when both tag collections have the same number of elements and
\* the same multiset of String(element).
Occurrences(tags, str) == Cardinality({i \in 1..Len(tags) : StringOf(tags[i]) = str})

SameMultiset(a, b) ==
  /\ Len(a) = Len(b)
  /\ \A x \in Range(a) \cup Range(b) :
       Occurrences(a, StringOf(x)) = Occurrences(b, StringOf(x))

C6_TagMultiset ==
  (pc = "strict" /\ AgreeOn(Range(keys) \cup {"fields"}))
    => (verdict = "match" <=> SameMultiset(TagsOf(server), TagsOf(entry)))

\* C9: for a pair without sensitive fields that agrees on everything but
\* fields, the verdict is a match exactly when both sides have the same field
\* names and the values of each name are structurally equal: arrays element by
\* element, objects as sets of members.
FieldNames(c) == {FieldsOf(c)[i].name : i \in 1..Len(FieldsOf(c))}

FieldValue(c, name) ==
  LET fs == FieldsOf(c)
      last == CHOOSE i \in 1..Len(fs) :
                fs[i].name = name /\ \A j \in (i + 1)..Len(fs) : fs[j].name # name
  IN  fs[last].value

StructurallyEqual(a, b) ==
  /\ a.t = b.t
  /\ IF a.t = "obj" THEN Range(a.items) = Range(b.items) ELSE a = b

C9_FieldsStructural ==
  (/\ pc = "strict"
   /\ AgreeOn(Range(keys) \cup {"tags"})
   /\ OpenFields(server) = FieldsOf(server)
   /\ OpenFields(entry) = FieldsOf(entry))
    => (verdict = "match" <=>
          /\ FieldNames(server) = FieldNames(entry)
          /\ \A n \in FieldNames(server) \cap FieldNames(entry) :
               StructurallyEqual(FieldValue(server, n), FieldValue(entry, n)))

====
